---- MODULE Spec2Model ----
(***************************************************************************)
(* Model of the Mythos Tauri application library                           *)
(* (muse/apps/tauri/src-tauri/src/lib.rs): the editor_message command,     *)
(* the setup hook that registers the "mythos" deep-link scheme and         *)
(* attaches the URL-open handler, and the run() entry point.               *)
(*                                                                         *)
(* The host runtime (event bus, deep-link plugin, OS) is the environment:  *)
(* the outcome of every emit and of register is chosen nondeterministically*)
(* and recorded, so that what the code does with each outcome is visible.  *)
(***************************************************************************)
EXTENDS Naturals, Sequences, FiniteSets

\* ---------------------------------------------------------------- bounds
\* handler invocations (editor_message calls plus URL-open callbacks) per run
MaxCalls == 2
\* URLs delivered in one URL-open callback
MaxUrls == 2

\* ------------------------------------------------------------ input sets
\* text payloads the web view may pass to editor_message
Messages == {"", "hello"}

\* url::Url values the deep-link plugin may hand to the handler; a Url keeps
\* its serialization and the offset where the scheme ends
Urls ==
  { [serialization |-> "mythos://auth/callback?code=abc", scheme_end |-> 6],
    [serialization |-> "mythos://open", scheme_end |-> 6] }

\* outcomes of AppHandle::emit: Ok or a tauri::Error
EmitOutcomes == {"Ok", "FailedToSendMessage"}

\* outcomes of DeepLink::register: Ok or a plugin error
RegisterOutcomes == {"Ok", "UnsupportedPlatform"}

\* sequences over S of length 0..n
RECURSIVE SeqsUpTo(_, _)
SeqsUpTo(S, n) ==
  IF n = 0 THEN {<<>>}
  ELSE LET shorter == SeqsUpTo(S, n - 1)
       IN  shorter \cup {Append(s, x) : s \in {t \in shorter : Len(t) = n - 1}, x \in S}

\* ------------------------------------------------------------- constants
EditorTopic == "editor-message"
DeepLinkTopic == "deep-link://new-url"
Scheme == "mythos"

\* ----------------------------------------------------------------- state
VARIABLES
  pc,              \* position of run(): start, setup, running, exited, panicked
  desktop,         \* cfg(desktop) of the build
  regState,        \* OS registration of the scheme: Unregistered / Registered
  regAttempts,     \* register calls made so far: <<scheme, outcome>> each
  handlerAttached, \* on_open_url closure attached to the plugin
  bus,             \* events published on the host event bus, in order
  attempts,        \* every emit call made, with its outcome, in order
  calls,           \* every handler invocation dispatched by the host, in order
  returns,         \* results returned to the web view, one per command call
  log              \* lines written to stdout / stderr, in order

vars == <<pc, desktop, regState, regAttempts, handlerAttached,
          bus, attempts, calls, returns, log>>

\* ----------------------------------------------------- the host event bus
Event(topic, payload) == [topic |-> topic, payload |-> payload]

Attempt(topic, payload, outcome) ==
  [topic |-> topic, payload |-> payload, outcome |-> outcome]

\* variant: an event equal to one already on the bus is not published again
PublishDedup(b, topic, payload, outcome) ==
  IF outcome = "Ok" /\ \A i \in 1..Len(b) : b[i] # Event(topic, payload)
  THEN Append(b, Event(topic, payload))
  ELSE b

\* the bus after one emit with the given outcome: an accepted emit adds the
\* event at the end, a rejected one adds nothing
Publish(b, topic, payload, outcome) ==
  IF outcome = "Ok" THEN Append(b, Event(topic, payload)) ELSE b

\* Display of an error (e.to_string())
ErrorToString(e) ==
  CASE e = "FailedToSendMessage" -> "failed to send message"
    [] e = "UnsupportedPlatform" -> "unsupported platform"
    [] OTHER -> "unknown error"

\* Display of a Url (url.to_string()): its serialization
UrlToString(u) == u.serialization

\* -------------------------------------------------------- editor_message
\* variant: the message is emitted under the deep-link topic
EditorEmitOtherTopic(message, outcome) == Attempt(DeepLinkTopic, message, outcome)

\* the emit call made by editor_message(message)
EditorEmit(message, outcome) == Attempt(EditorTopic, message, outcome)

\* variant: the emit result is dropped and the command always succeeds
EditorResultIgnored(outcome) == [ok |-> TRUE, err |-> ""]

\* Result<(), String> of editor_message: emit's result with map_err(to_string)
EditorResult(outcome) ==
  IF outcome = "Ok" THEN [ok |-> TRUE, err |-> ""]
  ELSE [ok |-> FALSE, err |-> ErrorToString(outcome)]

\* position of run() after editor_message returned: the error is a value,
\* nothing unwinds
EditorPc(outcome) == "running"

\* the bus after replaying a sequence of emit calls in order
RECURSIVE PublishAll(_, _)
PublishAll(b, emits) ==
  IF emits = <<>> THEN b
  ELSE PublishAll(Publish(b, Head(emits).topic, Head(emits).payload,
                          Head(emits).outcome),
                  Tail(emits))

EditorMessage(message, outcome) ==
  /\ pc = "running"
  /\ Len(calls) < MaxCalls
  /\ LET a == EditorEmit(message, outcome)
     IN  /\ attempts' = Append(attempts, a)
         /\ bus' = PublishAll(bus, <<a>>)
  /\ returns' = Append(returns, EditorResult(outcome))
  /\ calls' = Append(calls, [op |-> "editor_message", message |-> message,
                             urls |-> <<>>, outcomes |-> <<outcome>>])
  /\ pc' = EditorPc(outcome)
  /\ UNCHANGED <<desktop, regState, regAttempts, handlerAttached, log>>

\* ------------------------------------------------- on_open_url closure
\* variant: the URLs are emitted last to first
RECURSIVE ForwardUrlsReversed(_, _)
ForwardUrlsReversed(urls, outcomes) ==
  IF urls = <<>> THEN <<>>
  ELSE ForwardUrlsReversed(Tail(urls), Tail(outcomes))
       \o <<Attempt(DeepLinkTopic, UrlToString(Head(urls)), Head(outcomes))>>

\* variant: the first rejected emit ends the loop (as `?` or break would)
RECURSIVE ForwardUrlsUntilError(_, _)
ForwardUrlsUntilError(urls, outcomes) ==
  IF urls = <<>> THEN <<>>
  ELSE <<Attempt(DeepLinkTopic, UrlToString(Head(urls)), Head(outcomes))>>
       \o (IF Head(outcomes) = "Ok"
           THEN ForwardUrlsUntilError(Tail(urls), Tail(outcomes))
           ELSE <<>>)

\* the emit calls made by the loop over event.urls(): one per URL, in order,
\* each result dropped by `let _ =`, so a rejection does not end the loop
RECURSIVE ForwardUrls(_, _)
ForwardUrls(urls, outcomes) ==
  IF urls = <<>> THEN <<>>
  ELSE <<Attempt(DeepLinkTopic, UrlToString(Head(urls)), Head(outcomes))>>
       \o ForwardUrls(Tail(urls), Tail(outcomes))

\* lines the closure writes for the emit outcomes it saw: none
ForwardLog(outcomes) == <<>>

OnOpenUrl(urls, outcomes) ==
  /\ pc = "running"
  /\ handlerAttached
  /\ Len(calls) < MaxCalls
  /\ Len(outcomes) = Len(urls)
  /\ LET emits == ForwardUrls(urls, outcomes)
     IN  /\ attempts' = attempts \o emits
         /\ bus' = PublishAll(bus, emits)
  /\ log' = log \o ForwardLog(outcomes)
  /\ calls' = Append(calls, [op |-> "on_open_url", message |-> "",
                             urls |-> urls, outcomes |-> outcomes])
  /\ UNCHANGED <<pc, desktop, regState, regAttempts, handlerAttached, returns>>

\* ------------------------------------------------------------ setup hook
\* variant: a failed register is tried a second time
RegisterCallsRetried(outcome) ==
  IF outcome = "Ok" THEN << <<Scheme, outcome>> >>
  ELSE << <<Scheme, outcome>>, <<Scheme, outcome>> >>

\* the register calls the hook makes, given the outcome the plugin reports
RegisterCalls(outcome) == << <<Scheme, outcome>> >>

\* variant: the scheme counts as registered whatever register returned
NextRegStateAlways(state, outcome) == "Registered"

\* OS registration after register returned
NextRegState(state, outcome) ==
  IF outcome = "Ok" THEN "Registered" ELSE state

\* variant: the Err arm prints nothing
RegisterLogOkOnly(outcome) ==
  IF outcome = "Ok"
  THEN <<[stream |-> "stdout", text |-> "[deep-link] Registered mythos:// scheme",
          err |-> ""]>>
  ELSE <<>>

\* the line printed by the match on register's result
RegisterLog(outcome) ==
  IF outcome = "Ok"
  THEN <<[stream |-> "stdout", text |-> "[deep-link] Registered mythos:// scheme",
          err |-> ""]>>
  ELSE <<[stream |-> "stderr", text |-> "[deep-link] Failed to register (expected in dev): ",
          err |-> ErrorToString(outcome)]>>

\* variant: the handler is attached in the Ok arm only
AttachHandlerIfRegistered(outcome) == outcome = "Ok"

\* whether on_open_url is called after the match
AttachHandler(outcome) == TRUE

\* variant (strict policy): a register error is propagated with `?`
SetupResultStrict(outcome) == outcome

\* value the hook returns
SetupResult(outcome) == "Ok"

Setup(outcome) ==
  /\ pc = "setup"
  /\ IF desktop
     THEN /\ regAttempts' = regAttempts \o RegisterCalls(outcome)
          /\ regState' = NextRegState(regState, outcome)
          /\ log' = log \o RegisterLog(outcome)
          /\ handlerAttached' = AttachHandler(outcome)
     ELSE UNCHANGED <<regAttempts, regState, log, handlerAttached>>
  /\ pc' = IF SetupResult(outcome) = "Ok" THEN "running" ELSE "panicked"
  /\ UNCHANGED <<desktop, bus, attempts, calls, returns>>

\* ------------------------------------------------------------------ run
\* Builder::run builds the application and reaches the setup hook
Build ==
  /\ pc = "start"
  /\ pc' = "setup"
  /\ UNCHANGED <<desktop, regState, regAttempts, handlerAttached,
                 bus, attempts, calls, returns, log>>

\* Builder::run returns Err before setup; expect panics
RunError ==
  /\ pc = "start"
  /\ pc' = "panicked"
  /\ UNCHANGED <<desktop, regState, regAttempts, handlerAttached,
                 bus, attempts, calls, returns, log>>

\* the event loop ends and run returns
Exit ==
  /\ pc = "running"
  /\ pc' = "exited"
  /\ UNCHANGED <<desktop, regState, regAttempts, handlerAttached,
                 bus, attempts, calls, returns, log>>

Init ==
  /\ pc = "start"
  /\ desktop \in BOOLEAN
  /\ regState = "Unregistered"
  /\ regAttempts = <<>>
  /\ handlerAttached = FALSE
  /\ bus = <<>>
  /\ attempts = <<>>
  /\ calls = <<>>
  /\ returns = <<>>
  /\ log = <<>>

Next ==
  \/ Build
  \/ RunError
  \/ \E outcome \in RegisterOutcomes : Setup(outcome)
  \/ \E message \in Messages, outcome \in EmitOutcomes :
       EditorMessage(message, outcome)
  \/ \E urls \in SeqsUpTo(Urls, MaxUrls) :
       \E outcomes \in SeqsUpTo(EmitOutcomes, MaxUrls) :
         OnOpenUrl(urls, outcomes)
  \/ Exit

Spec == Init /\ [][Next]_vars

\* ============================================================ properties
\* the events of b on one topic, in order
EventsOn(b, topic) == SelectSeq(b, LAMBDA e : e.topic = topic)

\* the step is the dispatch of one handler invocation; NewCall is that call
CallStep == Len(calls') = Len(calls) + 1
NewCall == calls'[Len(calls')]
EditorStep == CallStep /\ NewCall.op = "editor_message"
UrlStep == CallStep /\ NewCall.op = "on_open_url"
LastCall == calls[Len(calls)]

\* the step is the setup hook making a register call; its outcome
RegisterStep == Len(regAttempts') > Len(regAttempts)
NewRegOutcome == regAttempts'[Len(regAttempts')][2]

\* C1: one editor_message(m) call whose emit the bus accepts adds exactly one
\* event to the bus, on topic "editor-message", with payload m; every other
\* topic's events are left as they were.
C1_EditorPublishesOnce ==
  [][ (EditorStep /\ NewCall.outcomes = <<"Ok">>)
        => /\ bus' = Append(bus, [topic |-> "editor-message",
                                  payload |-> NewCall.message])
           /\ EventsOn(bus', "deep-link://new-url")
                = EventsOn(bus, "deep-link://new-url") ]_vars

C1_Witness ==
  /\ calls # <<>>
  /\ LastCall.op = "editor_message"
  /\ LastCall.message = ""
  /\ LastCall.outcomes = <<"Ok">>
  /\ bus # <<>>
  /\ bus[Len(bus)] = [topic |-> "editor-message", payload |-> ""]

\* C2: one URL-open callback with URLs u1..un (n >= 1) makes exactly one emit
\* per URL on topic "deep-link://new-url", in the order of the sequence, with
\* payload the URL's string; the bus gains exactly the accepted ones, in that
\* order, and nothing on topic "editor-message".
C2_UrlsForwardedInOrder ==
  [][ (UrlStep /\ NewCall.urls # <<>>)
        => LET urls == NewCall.urls
               outcomes == NewCall.outcomes
               n == Len(urls)
               accepted == SelectSeq([i \in 1..n |-> i],
                                     LAMBDA i : outcomes[i] = "Ok")
           IN  /\ Len(attempts') = Len(attempts) + n
               /\ \A i \in 1..n :
                    /\ attempts'[Len(attempts) + i].topic = "deep-link://new-url"
                    /\ attempts'[Len(attempts) + i].payload = urls[i].serialization
               /\ bus' = bus \o [k \in 1..Len(accepted) |->
                                   [topic |-> "deep-link://new-url",
                                    payload |-> urls[accepted[k]].serialization]]
               /\ EventsOn(bus', "editor-message") = EventsOn(bus, "editor-message")
    ]_vars

C2_Witness ==
  /\ calls # <<>>
  /\ LastCall.op = "on_open_url"
  /\ Len(LastCall.urls) = 2
  /\ LastCall.urls[1] # LastCall.urls[2]
  /\ LastCall.outcomes = <<"Ok", "Ok">>
  /\ Len(bus) >= 2
  /\ bus[Len(bus) - 1].payload = LastCall.urls[1].serialization
  /\ bus[Len(bus)].payload = LastCall.urls[2].serialization

\* C3: an editor_message call whose emit the bus rejects returns the error's
\* string as an error value, publishes nothing, makes exactly one emit and
\* leaves the process running; a call whose emit is accepted returns success.
C3_EditorErrorReturned ==
  [][ EditorStep
        => LET outcome == NewCall.outcomes[1]
           IN  /\ Len(returns') = Len(returns) + 1
               /\ Len(attempts') = Len(attempts) + 1
               /\ outcome = "Ok" => returns'[Len(returns')].ok
               /\ outcome # "Ok"
                    => /\ ~returns'[Len(returns')].ok
                       /\ returns'[Len(returns')].err = ErrorToString(outcome)
                       /\ bus' = bus
                       /\ pc' = "running"
    ]_vars

C3_Witness ==
  /\ calls # <<>>
  /\ LastCall.op = "editor_message"
  /\ LastCall.outcomes = <<"FailedToSendMessage">>
  /\ returns[Len(returns)] = [ok |-> FALSE, err |-> "failed to send message"]
  /\ bus = <<>>
  /\ pc = "running"

\* C4: when the register call of the setup hook fails, one warning line is
\* written to stderr, the hook returns Ok and the application is in its main
\* loop afterwards; setup never ends in a panic.
C4_SetupSurvivesRegisterFailure ==
  [][ /\ (RegisterStep /\ NewRegOutcome # "Ok")
          => /\ pc' = "running"
             /\ Len(log') = Len(log) + 1
             /\ log'[Len(log')].stream = "stderr"
      /\ pc = "setup" => pc' # "panicked"
    ]_vars

C4_Witness ==
  /\ pc = "running"
  /\ regAttempts = << <<"mythos", "UnsupportedPlatform">> >>
  /\ Len(log) = 1
  /\ log[1].stream = "stderr"

\* C5 (as claimed): in every execution the register call has been made exactly
\* once by the time the main loop dispatches, and never before setup.
C5_RegisteredOnceInEveryRun ==
  /\ pc \in {"running", "exited"} => Len(regAttempts) = 1
  /\ pc \in {"start", "setup"} => regAttempts = <<>>

\* C5 (amended): in a desktop build the register call is made exactly once, by
\* the setup hook, before any editor_message call or URL-open event is
\* dispatched, and never again; a build without cfg(desktop) never makes it.
C5_RegisteredOnceOnDesktop ==
  /\ [](pc \in {"running", "exited"}
          => Len(regAttempts) = IF desktop THEN 1 ELSE 0)
  /\ [](pc \in {"start", "setup"}
          => regAttempts = <<>> /\ calls = <<>> /\ attempts = <<>>)
  /\ [](\A i \in 1..Len(regAttempts) : regAttempts[i][1] = "mythos")
  /\ [][regAttempts' # regAttempts => pc = "setup" /\ pc' = "running"]_vars

C5_Witness ==
  /\ pc = "exited"
  /\ desktop
  /\ Len(calls) = MaxCalls
  /\ \E i, j \in 1..Len(calls) :
       calls[i].op = "editor_message" /\ calls[j].op = "on_open_url"
  /\ regAttempts = << <<"mythos", "UnsupportedPlatform">> >>

\* the payloads of the editor_message calls whose emit was accepted, in call
\* order
AcceptedEditorPayloads ==
  LET accepted == SelectSeq(calls, LAMBDA c : c.op = "editor_message"
                                              /\ c.outcomes = <<"Ok">>)
  IN  [i \in 1..Len(accepted) |-> accepted[i].message]

\* C6: the events on topic "editor-message" are, one for one and in call
\* order, the payloads of the editor_message calls whose emit was accepted;
\* equal payloads give separate events.
C6_OneEventPerAcceptedCall ==
  LET events == EventsOn(bus, "editor-message")
  IN  /\ Len(events) = Len(AcceptedEditorPayloads)
      /\ \A i \in 1..Len(events) : events[i].payload = AcceptedEditorPayloads[i]

C6_Witness ==
  /\ Len(calls) = 2
  /\ calls[1] = calls[2]
  /\ calls[1].op = "editor_message"
  /\ calls[1].message = "hello"
  /\ calls[1].outcomes = <<"Ok">>
  /\ bus = << [topic |-> "editor-message", payload |-> "hello"],
              [topic |-> "editor-message", payload |-> "hello"] >>

\* a URL-open callback in which the bus rejected at least one emit
UrlRejectStep ==
  UrlStep /\ \E i \in 1..Len(NewCall.outcomes) : NewCall.outcomes[i] # "Ok"

\* the number of rejected emits among outcomes
RECURSIVE Rejected(_)
Rejected(outcomes) ==
  IF outcomes = <<>> THEN 0
  ELSE (IF Head(outcomes) = "Ok" THEN 0 ELSE 1) + Rejected(Tail(outcomes))

\* C7 (as claimed): every Deep-Link Listener failure, a failed register or a
\* rejected emit of a received URL, writes a log line and gives the web view
\* no error value and no event.
C7_EveryListenerFailureLogged ==
  [][ /\ (RegisterStep /\ NewRegOutcome # "Ok")
          => Len(log') > Len(log) /\ returns' = returns /\ bus' = bus
      /\ UrlRejectStep
          => /\ Len(log') > Len(log)
             /\ returns' = returns
             /\ Len(bus') = Len(bus) + Len(NewCall.urls) - Rejected(NewCall.outcomes)
    ]_vars

\* C7 (amended): a failed register writes one line to stderr and gives the web
\* view no error value and no event; a rejected emit of a received URL writes
\* no log line at all, and gives the web view no error value and no event for
\* that URL.
C7_OnlyRegisterFailureLogged ==
  [][ /\ (RegisterStep /\ NewRegOutcome # "Ok")
          => /\ Len(log') = Len(log) + 1
             /\ log'[Len(log')].stream = "stderr"
             /\ log'[Len(log')].err = ErrorToString(NewRegOutcome)
             /\ returns' = returns
             /\ bus' = bus
      /\ UrlRejectStep
          => /\ log' = log
             /\ returns' = returns
             /\ Len(bus') = Len(bus) + Len(NewCall.urls) - Rejected(NewCall.outcomes)
    ]_vars

C7_Witness ==
  /\ regAttempts = << <<"mythos", "UnsupportedPlatform">> >>
  /\ calls # <<>>
  /\ LastCall.op = "on_open_url"
  /\ LastCall.outcomes = <<"FailedToSendMessage">>
  /\ Len(log) = 1
  /\ returns = <<>>
  /\ bus = <<>>

\* C8: in a URL-open callback a rejected emit for URL i is dropped: nothing is
\* returned or logged, the process keeps running, URL i is emitted once only,
\* and every later URL j > i of the callback is still emitted exactly once;
\* the handler stays attached, so later callbacks are served the same way.
C8_RejectedUrlDoesNotStopLoop ==
  [][ UrlStep
        => LET urls == NewCall.urls
               outcomes == NewCall.outcomes
               base == Len(attempts)
           IN  /\ returns' = returns
               /\ pc' = "running"
               /\ handlerAttached'
               /\ \A i \in 1..Len(urls) :
                    outcomes[i] # "Ok"
                      => /\ Len(attempts') = base + Len(urls)
                         /\ attempts'[base + i].outcome = outcomes[i]
                         /\ \A j \in (i + 1)..Len(urls) :
                              attempts'[base + j] =
                                [topic |-> "deep-link://new-url",
                                 payload |-> urls[j].serialization,
                                 outcome |-> outcomes[j]]
    ]_vars

C8_Witness ==
  /\ Len(calls) >= 2
  /\ calls[1].op = "on_open_url"
  /\ calls[1].outcomes = <<"FailedToSendMessage", "Ok">>
  /\ calls[2].op = "on_open_url"
  /\ calls[2].outcomes = <<"Ok">>
  /\ Len(attempts) = 3
  /\ Len(bus) = 2
  /\ bus[1].payload = calls[1].urls[2].serialization
  /\ bus[2].payload = calls[2].urls[1].serialization

\* C9: the registration state is Unregistered or Registered; it changes only
\* from Unregistered to Registered, only in the setup hook and only when the
\* register call returned Ok; after a failed register it is Unregistered for
\* the rest of the run.
C9_RegistrationOneShot ==
  /\ [](regState \in {"Unregistered", "Registered"})
  /\ [][regState' # regState
          => /\ regState = "Unregistered"
             /\ regState' = "Registered"
             /\ pc = "setup"
             /\ RegisterStep
             /\ NewRegOutcome = "Ok"]_vars
  /\ []((regAttempts # <<>> /\ regAttempts[1][2] # "Ok")
          => regState = "Unregistered")
  /\ []((regAttempts # <<>> /\ regAttempts[1][2] = "Ok")
          => regState = "Registered")

C9_Witness ==
  /\ pc = "exited"
  /\ regState = "Registered"
  /\ regAttempts = << <<"mythos", "Ok">> >>
  /\ Len(calls) = MaxCalls

\* C10: the URL-open handler is attached by the setup hook whatever the
\* register call returned: after a failed register a URL-open event is still
\* forwarded on topic "deep-link://new-url".
C10_HandlerAttachedRegardless ==
  /\ []((pc \in {"running", "exited"} /\ regAttempts # <<>>) => handlerAttached)
  /\ [][ (UrlStep /\ regState = "Unregistered")
           => \A i \in 1..Len(NewCall.urls) :
                NewCall.outcomes[i] = "Ok"
                  => \E k \in (Len(bus) + 1)..Len(bus') :
                       bus'[k] = [topic |-> "deep-link://new-url",
                                  payload |-> NewCall.urls[i].serialization]
       ]_vars

C10_Witness ==
  /\ regState = "Unregistered"
  /\ regAttempts = << <<"mythos", "UnsupportedPlatform">> >>
  /\ handlerAttached
  /\ calls # <<>>
  /\ LastCall.op = "on_open_url"
  /\ bus # <<>>
  /\ bus[Len(bus)].topic = "deep-link://new-url"

====
